---- MODULE Spec2Model ----
(***************************************************************************)
(* State-machine model of the legacy detection services:                   *)
(*   text_detector.py   TextAIDetector                                     *)
(*   image_detector.py  ImageAIDetector                                    *)
(*   api_v1_detection.py  the /text and /image routes                      *)
(*                                                                         *)
(* Scores, probabilities and confidences are fixed-point numbers in        *)
(* thousandths: the Python float 0.3 is 300, 1.0 is 1000.                   *)
(***************************************************************************)
EXTENDS Integers, Sequences, FiniteSets, TLC

VARIABLES
    TRANSFORMERS_AVAILABLE, \* text_detector.py module global (lines 6-11)
    tokenizer,              \* TextAIDetector.tokenizer
    model,                  \* TextAIDetector.model
    opencv_available,       \* ImageAIDetector.opencv_available
    calls,                  \* the detect() invocations in flight, by call id
    db,                     \* the rows of content_scans, in insertion order
    response                \* what the last routed request was answered with

vars == <<TRANSFORMERS_AVAILABLE, tokenizer, model, opencv_available, calls, db, response>>

detector == <<TRANSFORMERS_AVAILABLE, tokenizer, model, opencv_available>>

\* ---------------------------------------------------------------- bounds
\* Number of detect() invocations that may be in flight at once.
MaxCalls == 2

\* Number of rows the scan table may hold before the routes stop being driven.
MaxScans == 2

Calls == 1..MaxCalls

\* ---------------------------------------------------------------- values
None == "None"

Min(a, b) == IF a < b THEN a ELSE b

Max(a, b) == IF a > b THEN a ELSE b

\* A Python call either returns a value or raises.
Returned(v) == [ok |-> TRUE, value |-> v]

Raised(e) == [ok |-> FALSE, exc |-> e]

\* ================================================================ text
\* A str argument is described by what the regular expressions of
\* _extract_writing_features and the n-gram loops measure on it:
\*   len, strip_len  len(text), len(text.strip())
\*   word_count      len(re.findall(r'\b\w+\b', text.lower()))
\*   sentence_count  number of non-blank pieces of re.split(r'[.!?]+', ...)
\*   unique_words    len(set(words))
\*   word_chars      sum(len(word) for word in words)
\*   repeats         bigram_repetition + trigram_repetition
\*   cv              std_length / mean_length of the sentence lengths (x1000)
\*   perplexity      math.exp(-avg_log_prob) of the bigram model (x100)
\* A non-str argument (None) has kind "nonstr".
Str(n, s, wc, sc, uq, ch, rp, cv, pp) ==
    [kind |-> "str", len |-> n, strip_len |-> s, word_count |-> wc,
     sentence_count |-> sc, unique_words |-> uq, word_chars |-> ch,
     repeats |-> rp, cv |-> cv, perplexity |-> pp]

NonStr == [kind |-> "nonstr", len |-> 0, strip_len |-> 0, word_count |-> 0,
           sentence_count |-> 0, unique_words |-> 0, word_chars |-> 0,
           repeats |-> 0, cv |-> 0, perplexity |-> 0]

EmptyText == Str(0, 0, 0, 0, 0, 0, 0, 0, 0)

BlankText == Str(3, 0, 0, 0, 0, 0, 0, 0, 0)

Hi == Str(2, 2, 1, 1, 1, 2, 0, 0, 0)

\* "The cat sat on the mat. " three times: 18 words, 5 unique, 3 equal sentences
CatMat == Str(71, 71, 18, 3, 5, 51, 21, 0, 594)

StrTexts ==
    { EmptyText, BlankText, Hi, CatMat,
      Str(20, 20, 4, 1, 4, 16, 0, 0, 0),
      Str(11, 11, 3, 3, 3, 6, 0, 0, 0),
      Str(30, 30, 5, 2, 3, 24, 0, 400, 0),
      Str(50, 50, 9, 1, 9, 40, 0, 0, 0),
      Str(60, 60, 10, 4, 10, 50, 0, 1040, 900),
      Str(300, 300, 49, 4, 30, 250, 4, 300, 4000),
      Str(310, 310, 50, 5, 50, 255, 0, 500, 4900),
      Str(1200, 1200, 199, 12, 90, 1000, 60, 250, 12000),
      Str(1210, 1210, 200, 12, 120, 1005, 10, 700, 8000),
      Str(3000, 3000, 500, 30, 200, 2500, 30, 450, 15000) }

TextInputs == StrTexts \cup {NonStr}

\* text_detector.py:21-30.  outcome is what from_pretrained does.  The
\* assignment TRANSFORMERS_AVAILABLE = False of line 30 binds a local name of
\* _load_model (there is no global statement): the module flag is not written.
_load_model(outcome) ==
    [tokenizer |-> IF outcome = "tokenizer_error" THEN None ELSE "tokenizer",
     model |-> IF outcome = "ok" THEN "model" ELSE None,
     TRANSFORMERS_AVAILABLE |-> TRUE]

LoadOutcomes == {"ok", "tokenizer_error", "model_error"}

\* text_detector.py:15-19
TextAIDetector(available, outcome) ==
    IF available
    THEN _load_model(outcome)
    ELSE [tokenizer |-> None, model |-> None, TRANSFORMERS_AVAILABLE |-> FALSE]

\* text_detector.py:135-147
_extract_writing_features(text) ==
    IF text.kind # "str" THEN Raised("AttributeError")
    ELSE Returned(
        [word_count |-> text.word_count,
         sentence_count |-> text.sentence_count,
         avg_sentence_length |-> (text.word_count * 1000) \div Max(text.sentence_count, 1),
         unique_words |-> text.unique_words,
         vocabulary_diversity |-> (text.unique_words * 1000) \div Max(text.word_count, 1),
         avg_word_length |-> (text.word_chars * 1000) \div Max(text.word_count, 1)])

\* text_detector.py:149-164
_analyze_repetition(text) ==
    IF text.kind # "str" THEN Raised("TypeError")
    ELSE IF text.word_count < 10 THEN Returned(500)
    ELSE Returned(Min(1000, (text.repeats * 10000) \div Max(text.word_count, 1)))

\* text_detector.py:166-174
_analyze_vocabulary_diversity(text) ==
    IF text.kind # "str" THEN Raised("TypeError")
    ELSE IF text.word_count < 5 THEN Returned(500)
    ELSE Returned(1000 - (text.unique_words * 1000) \div text.word_count)

\* text_detector.py:176-191
_analyze_sentence_structure(text) ==
    IF text.kind # "str" THEN Raised("AttributeError")
    ELSE IF text.sentence_count < 2 THEN Returned(500)
    ELSE Returned(Max(0, 1000 - text.cv))

\* text_detector.py:193-217
_calculate_perplexity(text) ==
    IF text.kind # "str" THEN Raised("TypeError")
    ELSE IF text.word_count < 10 THEN Returned(500)
    ELSE Returned(Max(0, Min(1000, 1000 - text.perplexity \div 10)))

\* A Python object passed as the `features` argument: a dict has .get, the
\* tensor returned by torch.softmax has not.
Dict(d) == [type |-> "dict", value |-> d]

Tensor(p) == [type |-> "Tensor", value |-> p]

\* text_detector.py:219-231
_calculate_confidence(text, features) ==
    IF features.type # "dict" THEN Raised("AttributeError")
    ELSE LET word_count == features.value.word_count
         IN  IF word_count < 10 THEN Returned(300)
             ELSE IF word_count < 50 THEN Returned(600)
             ELSE IF word_count < 200 THEN Returned(800)
             ELSE Returned(900)

\* text_detector.py:67-88.  probabilities is the softmax row; the whole body
\* is inside try/except Exception, which returns 0.5.
_calculate_ai_probability(text, probabilities) ==
    LET base_prob == probabilities.value[Len(probabilities.value)]
        features == _extract_writing_features(text)
        repetition_score == _analyze_repetition(text)
        vocab_score == _analyze_vocabulary_diversity(text)
    IN  IF ~features.ok \/ ~repetition_score.ok \/ ~vocab_score.ok
        THEN 500
        ELSE LET heuristic_score ==
                     (repetition_score.value * 4 + vocab_score.value * 3
                      + (1000 - features.value.vocabulary_diversity) * 3) \div 10
                 final_prob == (base_prob * 7 + heuristic_score * 3) \div 10
             IN  Min(1000, Max(0, final_prob))

\* text_detector.py:53-62, the dict the ML tier returns
MlResult(text, ai_prob, confidence) ==
    [ai_probability |-> ai_prob,
     confidence |-> confidence,
     analysis |-> [method |-> "ml_model",
                   model |-> "transformers",
                   features |-> _extract_writing_features(text).value,
                   perplexity |-> _calculate_perplexity(text).value]]

\* What the environment does to one ML attempt: nothing, or the tokenizer
\* call of line 43 raises, or the model call of line 45 raises.
MlFaults == {"none", "tokenizer", "model"}

\* The softmax rows the model may produce (two classes).
Probabilities == {<<1000, 0>>, <<500, 500>>, <<0, 1000>>}

\* text_detector.py:41-62, the try body of _ml_detection: Returned(dict), or
\* Raised(place) when line `place` raises.
_ml_try(text, fault, probs) ==
    IF text.kind # "str" \/ fault = "tokenizer" THEN Raised("tokenizer")
    ELSE IF fault = "model" THEN Raised("model")
    ELSE LET probabilities == Tensor(probs)
             ai_prob == _calculate_ai_probability(text, probabilities)
             confidence == _calculate_confidence(text, probabilities)
         IN  IF ~confidence.ok THEN Raised("confidence")
             ELSE Returned(MlResult(text, ai_prob, confidence.value))

\* text_detector.py:122-133, the dict the heuristic tier returns
HeuristicResult(features, ai_probability, confidence, repetition_score, vocab_score, structure_score, perplexity_score) ==
    [ai_probability |-> ai_probability,
     confidence |-> confidence,
     analysis |-> [method |-> "heuristic",
                   features |-> features,
                   repetition_score |-> repetition_score,
                   vocab_score |-> vocab_score,
                   structure_score |-> structure_score,
                   perplexity |-> perplexity_score]]

\* _heuristic_detection with the four signals weighted alike.
HeuristicFusion_equal(repetition_score, vocab_score, structure_score, perplexity_score) ==
    LET ai_score == repetition_score * 25 + vocab_score * 25
                    + structure_score * 25 + perplexity_score * 25
        total_weight == 25 + 25 + 25 + 25
    IN  Min(1000, Max(0, ai_score \div total_weight))

\* text_detector.py:118-119, the weighted sum and its normalisation; weights
\* are in hundredths.
HeuristicFusion(repetition_score, vocab_score, structure_score, perplexity_score) ==
    LET ai_score == repetition_score * 30 + vocab_score * 20
                    + structure_score * 25 + perplexity_score * 25
        total_weight == 30 + 20 + 25 + 25
    IN  Min(1000, Max(0, ai_score \div total_weight))

\* text_detector.py:90-133.  There is no try in this method: whatever a
\* sub-analyzer raises leaves it.
_heuristic_detection(text) ==
    LET features == _extract_writing_features(text)
        repetition_score == _analyze_repetition(text)
        vocab_score == _analyze_vocabulary_diversity(text)
        structure_score == _analyze_sentence_structure(text)
        perplexity_score == _calculate_perplexity(text)
    IN  IF ~features.ok THEN features
        ELSE IF ~repetition_score.ok THEN repetition_score
        ELSE IF ~vocab_score.ok THEN vocab_score
        ELSE IF ~structure_score.ok THEN structure_score
        ELSE IF ~perplexity_score.ok THEN perplexity_score
        ELSE LET confidence == _calculate_confidence(text, Dict(features.value))
             IN  IF ~confidence.ok THEN confidence
                 ELSE Returned(HeuristicResult(
                          features.value,
                          HeuristicFusion(repetition_score.value, vocab_score.value,
                                          structure_score.value, perplexity_score.value),
                          confidence.value, repetition_score.value, vocab_score.value,
                          structure_score.value, perplexity_score.value))

\* text_detector.py:34, the tier test of detect
MlSelected(available, mdl) == available /\ mdl # None

\* ================================================================ image
\* The image_data argument.  A bytes object is described by
\*   size             len(image_data)
\*   decode           what cv2.imdecode does with it: "img" (an array),
\*                    "none" (returns None) or "error" (raises cv2.error)
\*   height, width    img.shape[:2] of the decoded array
\*   freq_ratio       high_freq_mean / (low_freq_mean + 1e-8)     (x1000)
\*   color_uniformity 1 - (mean(hsv_std) + mean(lab_std)) / 255   (x1000)
\*   edge_density     np.sum(edges > 0) / number of pixels        (x1000)
\*   mean_var         np.mean(var_img) / 255                      (x1000)
\* A non-bytes argument (None) has kind "nonbytes": np.frombuffer and len
\* raise TypeError on it.
Bytes(n, dec, h, w, fr, cu, ed, mv) ==
    [kind |-> "bytes", size |-> n, decode |-> dec, height |-> h, width |-> w,
     freq_ratio |-> fr, color_uniformity |-> cu, edge_density |-> ed, mean_var |-> mv]

NonBytes == [kind |-> "nonbytes", size |-> 0, decode |-> "error", height |-> 0,
             width |-> 0, freq_ratio |-> 0, color_uniformity |-> 0,
             edge_density |-> 0, mean_var |-> 0]

FileSizes == {0, 1, 5000, 9999, 10000, 49999, 50000, 199999, 200000,
              999999, 1000000, 5000000}

\* Byte strings cv2.imdecode makes no image of.
Garbage == { Bytes(n, dec, 0, 0, 0, 0, 0, 0) : n \in FileSizes, dec \in {"none", "error"} }

Shapes == { <<4, 300>>, <<32, 32>>, <<63, 2000>>, <<64, 64>>, <<128, 128>>,
            <<256, 255>>, <<2000, 255>>, <<512, 512>>, <<1023, 1024>>,
            <<1024, 64>>, <<1024, 1024>>, <<2048, 2048>> }

\* <<freq_ratio, color_uniformity, edge_density, mean_var>> of a picture
Pixels == { <<800, 700, 100, 200>>, <<12000, 1000, 0, 0>>, <<0, 0, 1000, 60000>> }

Pictures == { Bytes(n, "img", sh[1], sh[2], px[1], px[2], px[3], px[4]) :
                  n \in {5000, 60000, 2000000}, sh \in Shapes, px \in Pixels }

ImageInputs == Garbage \cup Pictures \cup {NonBytes}

\* The sub-analyzers of the advanced tier whose OpenCV / NumPy calls may raise.
Analyzers == {"frequency", "artifact", "texture"}

\* _frequency_domain_analysis whose except clause returns 0.0.
_frequency_domain_analysis_zero(img, fails) ==
    IF "frequency" \in fails THEN 0
    ELSE IF img.height < 8 \/ img.width < 8 THEN 1000
    ELSE Min(1000, img.freq_ratio \div 10)

\* image_detector.py:102-145.  With fewer than 8 rows or columns the low
\* frequency window is empty, np.mean of it is nan, and min(1.0, nan) is 1.0.
_frequency_domain_analysis(img, fails) ==
    IF "frequency" \in fails THEN 500
    ELSE IF img.height < 8 \/ img.width < 8 THEN 1000
    ELSE Min(1000, img.freq_ratio \div 10)

\* image_detector.py:147-175
_detect_ai_artifacts(img, fails) ==
    IF "artifact" \in fails THEN 500
    ELSE LET edge_consistency == 1000 - img.edge_density
             artifact_score == (img.color_uniformity * 6 + edge_consistency * 4) \div 10
         IN  Max(0, Min(1000, artifact_score))

\* _analyze_metadata with <= for < in its size tests.
_analyze_metadata_le(image_data) ==
    IF image_data.kind # "bytes" THEN 500
    ELSE LET size == image_data.size
         IN  IF size <= 10000 THEN 300
             ELSE IF size <= 50000 THEN 500
             ELSE IF size <= 200000 THEN 600
             ELSE IF size <= 1000000 THEN 700
             ELSE 800

\* image_detector.py:177-197
_analyze_metadata(image_data) ==
    IF image_data.kind # "bytes" THEN 500
    ELSE LET size == image_data.size
         IN  IF size < 10000 THEN 300
             ELSE IF size < 50000 THEN 500
             ELSE IF size < 200000 THEN 600
             ELSE IF size < 1000000 THEN 700
             ELSE 800

\* _analyze_texture_patterns returning texture_uniformity unclamped.
_analyze_texture_patterns_unclamped(img, fails) ==
    IF "texture" \in fails THEN 500 ELSE 1000 - img.mean_var

\* image_detector.py:199-223
_analyze_texture_patterns(img, fails) ==
    IF "texture" \in fails THEN 500
    ELSE LET texture_uniformity == 1000 - img.mean_var
         IN  Max(0, Min(1000, texture_uniformity))

\* _calculate_confidence with `and` for `or` in its dimension tests.
_calculate_confidence_image_and(img, scores) ==
    IF img.decode # "img" \/ img.height * img.width = 0 THEN 300
    ELSE IF img.height < 64 /\ img.width < 64 THEN 400
    ELSE IF img.height < 256 /\ img.width < 256 THEN 600
    ELSE IF img.height < 1024 /\ img.width < 1024 THEN 800
    ELSE 900

\* image_detector.py:225-242 (ImageAIDetector._calculate_confidence)
_calculate_confidence_image(img, scores) ==
    IF img.decode # "img" \/ img.height * img.width = 0 THEN 300
    ELSE IF img.height < 64 \/ img.width < 64 THEN 400
    ELSE IF img.height < 256 \/ img.width < 256 THEN 600
    ELSE IF img.height < 1024 \/ img.width < 1024 THEN 800
    ELSE 900

\* image_detector.py:43-48, weights in hundredths
AdvancedFusion(frequency_score, artifact_score, metadata_score, texture_score) ==
    (frequency_score * 35 + artifact_score * 25
     + metadata_score * 20 + texture_score * 20) \div 100

\* image_detector.py:36-69, the part of the try body after the decode
AdvancedResult(image_data, fails) ==
    LET frequency_score == _frequency_domain_analysis(image_data, fails)
        artifact_score == _detect_ai_artifacts(image_data, fails)
        metadata_score == _analyze_metadata(image_data)
        texture_score == _analyze_texture_patterns(image_data, fails)
        scores == [frequency |-> frequency_score, artifacts |-> artifact_score,
                   metadata |-> metadata_score, texture |-> texture_score]
    IN  [ai_probability |-> AdvancedFusion(frequency_score, artifact_score,
                                           metadata_score, texture_score),
         confidence |-> _calculate_confidence_image(image_data, scores),
         analysis |-> [method |-> "advanced_cv",
                       frequency_analysis |-> frequency_score,
                       artifact_detection |-> artifact_score,
                       metadata_analysis |-> metadata_score,
                       texture_analysis |-> texture_score,
                       image_size |-> <<image_data.width, image_data.height>>,
                       channels |-> 3]]

\* image_detector.py:28-34, the decode: Returned(img), or Raised(why) when
\* the advanced tier hands the call to _basic_detection (img is None, line
\* 34; an exception, lines 71-73).
_decode(image_data) ==
    IF image_data.kind # "bytes" THEN Raised("frombuffer")
    ELSE IF image_data.decode = "error" THEN Raised("imdecode")
    ELSE IF image_data.decode = "none" THEN Raised("img is None")
    ELSE Returned(image_data)

\* image_detector.py:96-100
FallbackResult ==
    [ai_probability |-> 500, confidence |-> 300, analysis |-> [method |-> "fallback"]]

\* _basic_detection without its except clause: the TypeError of line 79 leaves it.
_basic_detection_no_except(image_data) ==
    IF image_data.kind # "bytes"
    THEN Raised("TypeError")
    ELSE Returned([ai_probability |-> Min(800, Max(200, _analyze_metadata(image_data))),
                   confidence |-> 500,
                   analysis |-> [method |-> "basic",
                                 file_size |-> image_data.size,
                                 metadata_score |-> _analyze_metadata(image_data)]])

\* _basic_detection with a misspelt name in its try body: every call ends in
\* the except clause.
_basic_detection_name_error(image_data) == Returned(FallbackResult)

\* image_detector.py:75-100.  len(image_data) of line 79 raises on a
\* non-bytes argument; the except clause returns the fixed dict.
_basic_detection(image_data) ==
    IF image_data.kind # "bytes"
    THEN Returned(FallbackResult)
    ELSE LET size == image_data.size
             metadata_score == _analyze_metadata(image_data)
         IN  Returned([ai_probability |-> Min(800, Max(200, metadata_score)),
                       confidence |-> 500,
                       analysis |-> [method |-> "basic",
                                     file_size |-> size,
                                     metadata_score |-> metadata_score]])

\* ================================================================ detect() calls
\* One invocation of detect(): where its coroutine stands (pc), its argument,
\* the tiers it has entered so far (path), why a tier handed over (cause),
\* the sub-analyzers that raised in it (fails) and what it ended with.
Idle == [pc |-> "IDLE"]

\* The argument kept in one slot on the detector instead of in the frame of
\* each invocation: while call 1 is in flight every step reads its argument.
ArgShared(i) == IF calls[1].pc # "IDLE" THEN calls[1].input ELSE calls[i].input

\* text_detector.py:32 / image_detector.py:19, the argument of invocation i,
\* a local of its own coroutine frame
Arg(i) == calls[i].input

\* _ml_detection dropping the model handle in its except clause.
_ml_detection_self_reset(self, attempt) ==
    IF attempt.ok THEN self ELSE [self EXCEPT !.model = None]

\* text_detector.py:39-65: no statement of _ml_detection, failing or not,
\* assigns to self; self is [tokenizer, model].
_ml_detection_self(self, attempt) == self

\* text_detector.py:32-37
TextDetect(i, text) ==
    /\ calls[i].pc = "IDLE"
    /\ calls' = [calls EXCEPT ![i] =
           LET tier == IF MlSelected(TRANSFORMERS_AVAILABLE, model)
                       THEN "ML_ATTEMPT" ELSE "HEURISTIC_ATTEMPT"
           IN  [pc |-> tier, kind |-> "text", input |-> text,
                path |-> <<"START", tier>>, cause |-> None, fails |-> {},
                outcome |-> Raised(None)]]
    /\ UNCHANGED <<detector, db, response>>

\* text_detector.py:39-65, up to the await of line 65
MlDetection(i) ==
    /\ calls[i].pc = "ML_ATTEMPT"
    /\ \E fault \in MlFaults, probs \in Probabilities :
         LET attempt == _ml_try(Arg(i), fault, probs)
             self == _ml_detection_self([tokenizer |-> tokenizer, model |-> model], attempt)
         IN  /\ calls' = [calls EXCEPT ![i] =
                   IF attempt.ok
                   THEN [@ EXCEPT !.pc = "DONE", !.path = Append(@, "DONE"),
                                  !.outcome = attempt]
                   ELSE [@ EXCEPT !.pc = "HEURISTIC_ATTEMPT",
                                  !.path = Append(@, "HEURISTIC_ATTEMPT"),
                                  !.cause = attempt.exc]]
             /\ tokenizer' = self.tokenizer
             /\ model' = self.model
    /\ UNCHANGED <<TRANSFORMERS_AVAILABLE, opencv_available, db, response>>

\* text_detector.py:90-133
HeuristicDetection(i) ==
    /\ calls[i].pc = "HEURISTIC_ATTEMPT"
    /\ LET r == _heuristic_detection(Arg(i))
       IN  calls' = [calls EXCEPT ![i] =
               IF r.ok
               THEN [@ EXCEPT !.pc = "DONE", !.path = Append(@, "DONE"), !.outcome = r]
               ELSE [@ EXCEPT !.pc = "RAISED", !.path = Append(@, "RAISED"), !.outcome = r]]
    /\ UNCHANGED <<detector, db, response>>

\* image_detector.py:19-24
ImageDetect(i, image_data) ==
    /\ calls[i].pc = "IDLE"
    /\ calls' = [calls EXCEPT ![i] =
           LET tier == IF opencv_available THEN "ADVANCED_ATTEMPT" ELSE "BASIC_ATTEMPT"
           IN  [pc |-> tier, kind |-> "image", input |-> image_data,
                path |-> <<"START", tier>>, cause |-> None, fails |-> {},
                outcome |-> Raised(None)]]
    /\ UNCHANGED <<detector, db, response>>

\* image_detector.py:26-73, up to the awaits of lines 34 and 73.  fails is
\* the set of sub-analyzers whose library calls raise on this run.
AdvancedDetection(i) ==
    /\ calls[i].pc = "ADVANCED_ATTEMPT"
    /\ \E fails \in SUBSET Analyzers :
         LET img == _decode(Arg(i))
         IN  calls' = [calls EXCEPT ![i] =
                 IF img.ok
                 THEN [@ EXCEPT !.pc = "DONE", !.path = Append(@, "DONE"),
                                !.fails = fails,
                                !.outcome = Returned(AdvancedResult(img.value, fails))]
                 ELSE [@ EXCEPT !.pc = "BASIC_ATTEMPT",
                                !.path = Append(@, "BASIC_ATTEMPT"),
                                !.cause = img.exc]]
    /\ UNCHANGED <<detector, db, response>>

\* image_detector.py:75-100
BasicDetection(i) ==
    /\ calls[i].pc = "BASIC_ATTEMPT"
    /\ LET r == _basic_detection(Arg(i))
       IN  calls' = [calls EXCEPT ![i] =
               IF ~r.ok
               THEN [@ EXCEPT !.pc = "RAISED", !.path = Append(@, "RAISED"), !.outcome = r]
               ELSE IF r.value.analysis.method = "fallback"
               THEN [@ EXCEPT !.pc = "DONE",
                              !.path = @ \o <<"TERMINAL_FALLBACK", "DONE">>,
                              !.outcome = r]
               ELSE [@ EXCEPT !.pc = "DONE", !.path = Append(@, "DONE"), !.outcome = r]]
    /\ UNCHANGED <<detector, db, response>>

\* The caller takes the result (or the exception); the frame is discarded.
Return(i) ==
    /\ calls[i].pc \in {"DONE", "RAISED"}
    /\ calls' = [calls EXCEPT ![i] = Idle]
    /\ UNCHANGED <<detector, db, response>>

NoResponse == [route |-> "none"]

\* The state after TextAIDetector() and ImageAIDetector() are constructed.
\* image_detector.py:1 imports cv2 outside any try, so the module only loads
\* where the guarded import of lines 8-12 succeeds: OPENCV_AVAILABLE is True.
Init ==
    /\ \E available \in BOOLEAN, outcome \in LoadOutcomes :
         LET d == TextAIDetector(available, outcome)
         IN  /\ TRANSFORMERS_AVAILABLE = d.TRANSFORMERS_AVAILABLE
             /\ tokenizer = d.tokenizer
             /\ model = d.model
    /\ opencv_available = TRUE
    /\ calls = [i \in Calls |-> Idle]
    /\ db = <<>>
    /\ response = NoResponse

\* One caller, one detect() at a time.
Next ==
    \/ \E text \in TextInputs : TextDetect(1, text)
    \/ MlDetection(1)
    \/ HeuristicDetection(1)
    \/ \E image_data \in ImageInputs : ImageDetect(1, image_data)
    \/ AdvancedDetection(1)
    \/ BasicDetection(1)
    \/ Return(1)

Spec == Init /\ [][Next]_vars

\* ================================================================ detect(), run alone
\* text_detector.py:32-65: one detect() call from its first line to its
\* return, nothing else running.
TextAIDetector_detect(available, mdl, text, fault, probs) ==
    IF MlSelected(available, mdl)
    THEN LET attempt == _ml_try(text, fault, probs)
         IN  IF attempt.ok THEN attempt ELSE _heuristic_detection(text)
    ELSE _heuristic_detection(text)

\* image_detector.py:19-100, likewise
ImageAIDetector_detect(opencv, image_data, fails) ==
    IF opencv
    THEN LET img == _decode(image_data)
         IN  IF img.ok THEN Returned(AdvancedResult(img.value, fails))
             ELSE _basic_detection(image_data)
    ELSE _basic_detection(image_data)

\* ================================================================ concurrent callers
ConcTexts == {Hi, CatMat, NonStr}

ConcImages == { Bytes(5000, "none", 0, 0, 0, 0, 0, 0),
                Bytes(60000, "img", 128, 128, 800, 700, 100, 200),
                NonBytes }

\* Any number of callers up to MaxCalls, each step of each call interleaved
\* with the steps of the others.
NextConc ==
    \E i \in Calls :
        \/ \E text \in ConcTexts : TextDetect(i, text)
        \/ MlDetection(i)
        \/ HeuristicDetection(i)
        \/ \E image_data \in ConcImages : ImageDetect(i, image_data)
        \/ AdvancedDetection(i)
        \/ BasicDetection(i)
        \/ Return(i)

SpecConc == Init /\ [][NextConc]_vars

\* ================================================================ routes
\* api_v1_detection.py:69, settings.MAX_FILE_SIZE.  app/core/config.py is not
\* part of the sources at hand; the value is the usual megabyte ceiling.
MAX_FILE_SIZE == 1000000

\* api_v1_detection.py:65
AllowedContentTypes == {"image/jpeg", "image/png", "image/webp"}

ContentTypes == AllowedContentTypes \cup {"image/gif", "text/plain"}

\* TextRequest.text is a str (pydantic, line 19).
RouteTexts == {EmptyText, BlankText, Hi, CatMat}

\* What file.read() may return: bytes.
RouteImages == { Bytes(0, "error", 0, 0, 0, 0, 0, 0),
                 Bytes(0, "none", 0, 0, 0, 0, 0, 0),
                 Bytes(5000, "none", 0, 0, 0, 0, 0, 0),
                 Bytes(5000000, "none", 0, 0, 0, 0, 0, 0),
                 Bytes(60000, "img", 128, 128, 800, 700, 100, 200),
                 Bytes(2000000, "img", 2048, 2048, 800, 700, 100, 200) }

\* api_v1_detection.py:44-57 and 76-89, the row the INSERT writes
ScanRow(content_type, content, result) ==
    [content_type |-> content_type,
     content |-> IF content_type = "text" THEN content ELSE None,
     file_path |-> IF content_type = "image" THEN content ELSE None,
     ai_probability |-> result.ai_probability, confidence |-> result.confidence,
     analysis |-> result.analysis]

\* The sub-analyzer failures a routed image request is driven with.
RouteFails == {{}, {"frequency"}, Analyzers}

\* A handler's answer when it stops before the detector is called.
Rejected(route, request, status) ==
    /\ response' = [route |-> route, request |-> request, status |-> status,
                    detect_called |-> FALSE]
    /\ db' = db

\* A handler's answer after det.detect(...): an exception leaves the handler
\* (status 500, nothing inserted); a result is inserted, committed and returned.
Answered(route, request, content, result) ==
    IF ~result.ok
    THEN /\ response' = [route |-> route, request |-> request, status |-> 500,
                         detect_called |-> TRUE]
         /\ db' = db
    ELSE /\ response' = [route |-> route, request |-> request, status |-> 200,
                         detect_called |-> TRUE, body |-> result.value]
         /\ db' = Append(db, ScanRow(route, content, result.value))

\* api_v1_detection.py:34-59.  limited: the limiter of line 35 turns the
\* request away before the handler runs.
detect_text(text, limited) ==
    /\ Len(db) < MaxScans
    /\ IF limited THEN Rejected("text", text, 429)
       ELSE IF text.len = 0 \/ text.strip_len = 0 THEN Rejected("text", text, 400)
       ELSE \E outcome \in LoadOutcomes, fault \in MlFaults, probs \in Probabilities :
              LET det == TextAIDetector(TRANSFORMERS_AVAILABLE, outcome)
                  result == TextAIDetector_detect(det.TRANSFORMERS_AVAILABLE, det.model,
                                                  text, fault, probs)
              IN  Answered("text", text, Min(text.len, 1000), result)
    /\ UNCHANGED <<detector, calls>>

\* api_v1_detection.py:62-91
detect_image(content_type, data, limited) ==
    /\ Len(db) < MaxScans
    /\ LET file == [content_type |-> content_type, data |-> data]
       IN  IF limited THEN Rejected("image", file, 429)
           ELSE IF content_type \notin AllowedContentTypes THEN Rejected("image", file, 400)
           ELSE IF data.size > MAX_FILE_SIZE THEN Rejected("image", file, 400)
           ELSE \E fails \in RouteFails :
                  Answered("image", file, "upload",
                           ImageAIDetector_detect(opencv_available, data, fails))
    /\ UNCHANGED <<detector, calls>>

NextRoute ==
    \/ \E text \in RouteTexts, limited \in BOOLEAN : detect_text(text, limited)
    \/ \E content_type \in ContentTypes, data \in RouteImages, limited \in BOOLEAN :
          detect_image(content_type, data, limited)

SpecRoute == Init /\ [][NextRoute]_vars

\* ================================================================ properties
TextCall(i) == calls[i].pc # "IDLE" /\ calls[i].kind = "text"

ImageCall(i) == calls[i].pc # "IDLE" /\ calls[i].kind = "image"

Result(i) == calls[i].outcome.value

\* The paths of the state machine of both detectors.
TextPaths ==
    { <<"START", "ML_ATTEMPT", "DONE">>,
      <<"START", "ML_ATTEMPT", "HEURISTIC_ATTEMPT", "DONE">>,
      <<"START", "HEURISTIC_ATTEMPT", "DONE">>,
      <<"START", "ML_ATTEMPT", "HEURISTIC_ATTEMPT", "TERMINAL_FALLBACK", "DONE">>,
      <<"START", "HEURISTIC_ATTEMPT", "TERMINAL_FALLBACK", "DONE">> }

ImagePaths ==
    { <<"START", "ADVANCED_ATTEMPT", "DONE">>,
      <<"START", "ADVANCED_ATTEMPT", "BASIC_ATTEMPT", "DONE">>,
      <<"START", "BASIC_ATTEMPT", "DONE">>,
      <<"START", "ADVANCED_ATTEMPT", "BASIC_ATTEMPT", "TERMINAL_FALLBACK", "DONE">>,
      <<"START", "BASIC_ATTEMPT", "TERMINAL_FALLBACK", "DONE">> }

C2_ImageAlwaysReturns ==
    \A i \in Calls :
        ImageCall(i) =>
            /\ calls[i].pc # "RAISED"
            /\ calls[i].pc \in {"ADVANCED_ATTEMPT", "BASIC_ATTEMPT"} =>
                 ENABLED (AdvancedDetection(i) \/ BasicDetection(i))
            /\ calls[i].pc = "DONE" =>
                 /\ calls[i].outcome.ok
                 /\ calls[i].path \in ImagePaths
                 /\ Len(calls[i].path) = 3 <=> Result(i).analysis.method = "advanced_cv"
                 /\ Len(calls[i].path) = 4 <=> Result(i).analysis.method = "basic"
                 /\ Len(calls[i].path) = 5 <=>
                      /\ Result(i).analysis.method = "fallback"
                      /\ Result(i).ai_probability = 500
                      /\ Result(i).confidence = 300

\* A call whose basic tier raised and that returned the terminal fallback.
C2_Witness ==
    \E i \in Calls :
        /\ ImageCall(i)
        /\ calls[i].pc = "DONE"
        /\ calls[i].path = <<"START", "ADVANCED_ATTEMPT", "BASIC_ATTEMPT",
                             "TERMINAL_FALLBACK", "DONE">>

\* A byte string with something in it that cv2.imdecode makes no image of.
GarbageBytes(image_data) ==
    image_data.kind = "bytes" /\ image_data.size > 0 /\ image_data.decode # "img"

\* C3 as stated: for every non-empty byte input that does not decode as an
\* image, detect returns the terminal fallback result, ai_probability 0.5,
\* confidence 0.3, method "fallback".
C3_GarbageGivesFallback ==
    \A i \in Calls :
        (ImageCall(i) /\ calls[i].pc = "DONE" /\ GarbageBytes(calls[i].input)) =>
            /\ Result(i).ai_probability = 500
            /\ Result(i).confidence = 300
            /\ Result(i).analysis.method = "fallback"

\* C3 amended: for every non-empty byte input that does not decode as an
\* image, detect returns the basic-tier result and not the terminal fallback:
\* method "basic", confidence 0.5, ai_probability within [0.2, 0.8], the
\* payload's file_size being the input's length; the call never enters
\* TERMINAL_FALLBACK.
C3_GarbageGivesBasic ==
    \A i \in Calls :
        (ImageCall(i) /\ calls[i].pc = "DONE" /\ GarbageBytes(calls[i].input)) =>
            /\ Result(i).analysis.method = "basic"
            /\ Result(i).confidence = 500
            /\ Result(i).ai_probability >= 200
            /\ Result(i).ai_probability <= 800
            /\ Result(i).analysis.file_size = calls[i].input.size
            /\ calls[i].path = <<"START", "ADVANCED_ATTEMPT", "BASIC_ATTEMPT", "DONE">>

\* A call on garbage bytes, for which imdecode returned None, has returned.
C3_Witness ==
    \E i \in Calls :
        /\ ImageCall(i)
        /\ calls[i].pc = "DONE"
        /\ GarbageBytes(calls[i].input)
        /\ calls[i].cause = "img is None"

\* The byte-length table of C4, in thousandths.
C4_Step(size) ==
    CASE size < 10000 -> 300
      [] size >= 10000 /\ size < 50000 -> 500
      [] size >= 50000 /\ size < 200000 -> 600
      [] size >= 200000 /\ size < 1000000 -> 700
      [] OTHER -> 800

\* C4: when the advanced tier is unavailable or its decode step fails
\* (imdecode returns None or raises), detect on a byte string returns method
\* "basic", confidence 0.5 and ai_probability = clamp(table(len), 0.2, 0.8);
\* 5,000 bytes give 0.3.
C4_BasicTierResult ==
    \A i \in Calls :
        ( /\ ImageCall(i)
          /\ calls[i].pc = "DONE"
          /\ calls[i].input.kind = "bytes"
          /\ (~opencv_available \/ calls[i].input.decode \in {"none", "error"}) ) =>
            /\ Result(i).analysis.method = "basic"
            /\ Result(i).confidence = 500
            /\ Result(i).ai_probability = Min(800, Max(200, C4_Step(calls[i].input.size)))
            /\ calls[i].input.size = 5000 => Result(i).ai_probability = 300

\* A 10,000-byte payload, on which imdecode raised, has been answered.
C4_Witness ==
    \E i \in Calls :
        /\ ImageCall(i)
        /\ calls[i].pc = "DONE"
        /\ calls[i].input.size = 10000
        /\ calls[i].cause = "imdecode"
        /\ Result(i).ai_probability = 500

\* C5: every result either detector returns, on every tier path, has an
\* ai_probability in [0,1], a confidence in [0,1] and an analysis with a
\* method tag naming the tier.
C5_ResultShape ==
    \A i \in Calls :
        (calls[i].pc = "DONE") =>
            /\ DOMAIN Result(i) = {"ai_probability", "confidence", "analysis"}
            /\ Result(i).ai_probability \in 0..1000
            /\ Result(i).confidence \in 0..1000
            /\ "method" \in DOMAIN Result(i).analysis
            /\ Result(i).analysis.method \in
                 IF calls[i].kind = "text" THEN {"ml_model", "heuristic"}
                 ELSE {"advanced_cv", "basic", "fallback"}

\* An advanced-tier result for a picture whose local variance is far above
\* 255 (texture_uniformity negative before the clamp).
C5_Witness ==
    \E i \in Calls :
        /\ ImageCall(i)
        /\ calls[i].pc = "DONE"
        /\ Result(i).analysis.method = "advanced_cv"
        /\ calls[i].input.mean_var > 1000
        /\ calls[i].fails = {}

\* C6: a failure in the ML path of one call makes that call go on in the
\* heuristic tier on the same argument and return method "heuristic", and no
\* step of any call changes the availability flag, the tokenizer or the
\* model: the tier the next call selects is the one selected after
\* construction.
C6_MlFailureIsPerCall ==
    /\ [](\A i \in Calls :
            (TextCall(i) /\ calls[i].pc = "DONE" /\ calls[i].cause # None) =>
                Result(i).analysis.method = "heuristic")
    /\ [][ /\ UNCHANGED <<TRANSFORMERS_AVAILABLE, tokenizer, model>>
           /\ MlSelected(TRANSFORMERS_AVAILABLE', model')
                = MlSelected(TRANSFORMERS_AVAILABLE, model)
           /\ \A i \in Calls :
                (calls[i].pc = "ML_ATTEMPT" /\ calls'[i].pc \notin {"ML_ATTEMPT", "DONE"}) =>
                    /\ calls'[i].pc = "HEURISTIC_ATTEMPT"
                    /\ calls'[i].input = calls[i].input ]_vars

\* A call whose model inference raised has returned, and the ML tier is
\* still the one selected.
C6_Witness ==
    \E i \in Calls :
        /\ TextCall(i)
        /\ calls[i].pc = "DONE"
        /\ calls[i].cause = "model"
        /\ MlSelected(TRANSFORMERS_AVAILABLE, model)

\* The word-count table of C7, in thousandths.
C7_Step(word_count) ==
    CASE word_count < 10 -> 300
      [] word_count >= 10 /\ word_count < 50 -> 600
      [] word_count >= 50 /\ word_count < 200 -> 800
      [] OTHER -> 900

\* C7: in both text tiers the confidence is the step function of word_count,
\* and a call whose ML attempt got its model output (neither the tokenizer
\* nor the model raised) returns method "ml_model" with that confidence.
C7_ConfidenceBothTiers ==
    \A i \in Calls :
        (TextCall(i) /\ calls[i].pc = "DONE") =>
            /\ Result(i).confidence = C7_Step(calls[i].input.word_count)
            /\ (calls[i].path[2] = "ML_ATTEMPT" /\ calls[i].cause \notin {"tokenizer", "model"})
                 => Result(i).analysis.method = "ml_model"

\* The names C8 requires in the analysis of a text result.
C8_Names ==
    {"method", "features", "repetition_score", "vocab_score", "structure_score",
     "perplexity"}

EmptyContent(r) ==
    /\ r.route # "none"
    /\ IF r.route = "text"
       THEN r.request.len = 0 \/ r.request.strip_len = 0
       ELSE r.request.data.size = 0

\* C9: on the text route and on the image route a request with empty
\* content is answered with a client error, without detect being called and
\* without a scan row being written; the image route also turns away
\* content types off the allow-list and payloads over the size ceiling
\* before detect.
C9_OnlyNonEmptyReachesDetect ==
    [][ /\ EmptyContent(response') =>
             /\ response'.status \in 400..499
             /\ ~response'.detect_called
             /\ db' = db
        /\ ( /\ response'.route = "image"
             /\ \/ response'.request.content_type \notin AllowedContentTypes
                \/ response'.request.data.size > MAX_FILE_SIZE ) =>
             /\ response'.status \in 400..499
             /\ ~response'.detect_called
             /\ db' = db ]_vars

\* What a detect() call on this argument returns or raises when nothing else
\* runs, over everything the environment may do to it.
AloneOutcomes(kind, input) ==
    IF kind = "text"
    THEN { TextAIDetector_detect(TRANSFORMERS_AVAILABLE, model, input, fault, probs) :
               fault \in MlFaults, probs \in Probabilities }
    ELSE { ImageAIDetector_detect(opencv_available, input, fails) :
               fails \in SUBSET Analyzers }

\* C10: detect calls do not interfere.  Under any interleaving of the calls
\* in flight, a call that has ended ended exactly as a call run alone on the
\* same argument ends; a step writes the frame of one call only, never the
\* argument of a call in flight, and never the detector.
C10_CallsDoNotInterfere ==
    /\ [](\A i \in Calls :
            calls[i].pc \in {"DONE", "RAISED"} =>
                calls[i].outcome \in AloneOutcomes(calls[i].kind, calls[i].input))
    /\ [][ /\ UNCHANGED detector
           /\ \A i, j \in Calls :
                (i # j /\ calls'[i] # calls[i]) => calls'[j] = calls[j]
           /\ \A i \in Calls :
                (calls[i].pc # "IDLE" /\ calls'[i].pc # "IDLE") =>
                    calls'[i].input = calls[i].input ]_vars

\* Two calls in flight at once on different arguments: the first has
\* returned while the second, whose ML attempt failed, waits at the tier
\* boundary.
C10_Witness ==
    /\ calls[1].pc = "DONE"
    /\ calls[2].pc = "HEURISTIC_ATTEMPT"
    /\ calls[2].cause = "confidence"
    /\ calls[1].input # calls[2].input

\* The dimension table of C11 over the smaller of height and width, in
\* thousandths.
C11_Step(side) ==
    CASE side <= 0 -> 300
      [] side > 0 /\ side < 64 -> 400
      [] side >= 64 /\ side < 256 -> 600
      [] side >= 256 /\ side < 1024 -> 800
      [] OTHER -> 900

\* The confidence _calculate_confidence gives a decoded picture of this
\* shape, whatever the scores.
C11_ConfidenceOfShape(sh) ==
    _calculate_confidence_image(Bytes(1, "img", sh[1], sh[2], 0, 0, 0, 0),
                                [frequency |-> 0, artifacts |-> 0, metadata |-> 0, texture |-> 0])

\* C11: in the advanced tier the confidence is the step function of the
\* decoded image's dimensions (0.4 if height or width is below 64, 0.6 if
\* either is below 256, 0.8 if either is below 1024, else 0.9; 0.3 for no
\* image).  It is therefore non-decreasing in min(height, width): no shape
\* with a smaller or equal shorter side gets a higher confidence than the
\* result at hand; and it does not depend on the four scores: the run with
\* no sub-analyzer failing has the same confidence.
C11_AdvancedConfidence ==
    \A i \in Calls :
        ( /\ ImageCall(i)
          /\ calls[i].pc = "DONE"
          /\ Result(i).analysis.method = "advanced_cv" ) =>
            LET side == Min(calls[i].input.height, calls[i].input.width)
            IN  /\ Result(i).confidence = C11_Step(side)
                /\ \A sh \in Shapes :
                     /\ Min(sh[1], sh[2]) <= side =>
                          C11_ConfidenceOfShape(sh) <= Result(i).confidence
                     /\ Min(sh[1], sh[2]) >= side =>
                          C11_ConfidenceOfShape(sh) >= Result(i).confidence
                /\ Result(i).confidence = AdvancedResult(calls[i].input, {}).confidence

\* An advanced-tier result for a 63 x 2000 picture, two of its sub-analyzers
\* having failed: confidence 0.4.
C11_Witness ==
    \E i \in Calls :
        /\ ImageCall(i)
        /\ calls[i].pc = "DONE"
        /\ Result(i).analysis.method = "advanced_cv"
        /\ calls[i].input.height = 63
        /\ calls[i].input.width = 2000
        /\ calls[i].fails = {"frequency", "texture"}
        /\ Result(i).confidence = 400

\* C12: in the heuristic tier ai_probability is the sum 0.3 * repetition +
\* 0.2 * vocab + 0.25 * structure + 0.25 * perplexity of the scores the
\* result reports, the weights adding up to 1; for an input of fewer than 5
\* words and fewer than 2 sentences the four scores are all 0.5, so
\* ai_probability is 0.5, and confidence is 0.3.
C12_HeuristicFusion ==
    \A i \in Calls :
        ( /\ TextCall(i)
          /\ calls[i].pc = "DONE"
          /\ Result(i).analysis.method = "heuristic" ) =>
            LET a == Result(i).analysis
            IN  /\ 30 + 20 + 25 + 25 = 100
                /\ Result(i).ai_probability =
                     (30 * a.repetition_score + 20 * a.vocab_score
                      + 25 * a.structure_score + 25 * a.perplexity) \div 100
                /\ (calls[i].input.word_count < 5 /\ calls[i].input.sentence_count < 2) =>
                     /\ a.repetition_score = 500
                     /\ a.vocab_score = 500
                     /\ a.structure_score = 500
                     /\ a.perplexity = 500
                     /\ Result(i).ai_probability = 500
                     /\ Result(i).confidence = 300

\* The heuristic tier has answered "hi".
C12_Witness ==
    \E i \in Calls :
        /\ TextCall(i)
        /\ calls[i].pc = "DONE"
        /\ calls[i].input = Hi
        /\ Result(i).analysis.method = "heuristic"
        /\ Result(i).ai_probability = 500

\* The analysis key under which each sub-analyzer's score is reported.
C13_Key(analyzer) ==
    CASE analyzer = "frequency" -> "frequency_analysis"
      [] analyzer = "artifact" -> "artifact_detection"
      [] analyzer = "metadata" -> "metadata_analysis"
      [] analyzer = "texture" -> "texture_analysis"

\* C13: in the advanced tier, once the decode has succeeded, a sub-analyzer
\* that fails contributes the neutral 0.5 and nothing else changes: each of
\* the other scores is what it is when nothing fails, the call does not go
\* to the basic tier, and the result is method "advanced_cv" with
\* ai_probability = 0.35 * frequency + 0.25 * artifact + 0.20 * metadata +
\* 0.20 * texture of the scores reported.
C13_SubAnalyzerFailureIsLocal ==
    \A i \in Calls :
        ( /\ ImageCall(i)
          /\ calls[i].pc = "DONE"
          /\ _decode(calls[i].input).ok ) =>
            LET a == Result(i).analysis
                clean == AdvancedResult(calls[i].input, {}).analysis
            IN  /\ a.method = "advanced_cv"
                /\ calls[i].path = <<"START", "ADVANCED_ATTEMPT", "DONE">>
                /\ \A analyzer \in {"frequency", "artifact", "metadata", "texture"} :
                     a[C13_Key(analyzer)] =
                         IF analyzer \in calls[i].fails THEN 500
                         ELSE clean[C13_Key(analyzer)]
                /\ Result(i).ai_probability =
                     (35 * a.frequency_analysis + 25 * a.artifact_detection
                      + 20 * a.metadata_analysis + 20 * a.texture_analysis) \div 100

\* An advanced-tier result in which the frequency analysis alone failed, on
\* a picture none of whose scores is 0.5 when nothing fails.
C13_Witness ==
    \E i \in Calls :
        /\ ImageCall(i)
        /\ calls[i].pc = "DONE"
        /\ calls[i].fails = {"frequency"}
        /\ Result(i).analysis.method = "advanced_cv"
        /\ Result(i).analysis.frequency_analysis = 500
        /\ AdvancedResult(calls[i].input, {}).analysis.frequency_analysis # 500
        /\ Result(i).analysis.artifact_detection # 500
        /\ Result(i).analysis.metadata_analysis # 500
        /\ Result(i).analysis.texture_analysis # 500

====
